---- MODULE Spec2Model ----
(***************************************************************************)
(* Model of qdrant/init_collections.py: a sequential script that waits for *)
(* a Qdrant service, creates the collections of COLLECTIONS that do not    *)
(* exist yet (with one payload index per declared field) and lists the     *)
(* collections of the service.                                             *)
(*                                                                         *)
(* The script talks to one remote service.  The service is modelled by its *)
(* store (the names of the collections it holds, and the payload indexes   *)
(* of each) and by the answer it gives to each request: the faithful       *)
(* answer, a non-success status, or no answer at all (the transport raises *)
(* requests.exceptions.RequestException).  The script may be run again     *)
(* after it has ended; the store outlives a run.                           *)
(***************************************************************************)
EXTENDS Integers, Sequences, FiniteSets, TLC

\* Bounds of the model.
MaxRetries == 3     \* max_retries of wait_for_qdrant ranges over 1..MaxRetries
MaxFaults == 1      \* requests after the probe that the service fails, over all runs

\* wait_for_qdrant's default delay (seconds).
delay == 2

\* One entry of a payload_schema, in declaration order.
F(field_name, type) == [field_name |-> field_name, type |-> type]

\* The COLLECTIONS table; a Python dict iterates in insertion order.
COLLECTIONS ==
  << [name |-> "documents",
      vectors |-> [size |-> 1536, distance |-> "Cosine"],
      payload_schema |-> << F("title", "text"), F("content", "text"),
                            F("source", "keyword"), F("timestamp", "integer"),
                            F("metadata", "json") >>],
     [name |-> "chat_history",
      vectors |-> [size |-> 768, distance |-> "Cosine"],
      payload_schema |-> << F("user", "keyword"), F("message", "text"),
                            F("response", "text"), F("timestamp", "integer"),
                            F("session_id", "keyword") >>],
     [name |-> "code_snippets",
      vectors |-> [size |-> 768, distance |-> "Cosine"],
      payload_schema |-> << F("language", "keyword"), F("code", "text"),
                            F("description", "text"), F("tags", "keyword[]"),
                            F("project", "keyword") >>],
     [name |-> "knowledge_base",
      vectors |-> [size |-> 1024, distance |-> "Cosine"],
      payload_schema |-> << F("title", "text"), F("content", "text"),
                            F("category", "keyword"), F("tags", "keyword[]"),
                            F("url", "keyword"), F("last_updated", "integer") >>] >>

\* len(COLLECTIONS)
NumCollections == Len(COLLECTIONS)

Names == { COLLECTIONS[k].name : k \in 1..NumCollections }

VARIABLES
  pc,             \* where main is: "start", "wait", "version", "exists",
                  \* "create", "index", "list", "done", "exit"
  max_retries,    \* wait_for_qdrant's parameter
  i,              \* wait_for_qdrant's loop variable
  ci,             \* position of main's loop in COLLECTIONS (1-based)
  fi,             \* position of create_collection's loop in payload_schema
  success_count,  \* main's counter
  exit_status,    \* the process's exit status, -1 while it runs
  results,        \* what each create_collection call of this run returned
  reqs,           \* the requests and sleeps of this run, in order
  out,            \* the lines printed in this run, in order
  store,          \* service: names of the collections it holds
  indexed,        \* service: <<collection, field>> pairs that have an index
  faults,         \* requests after the probe the service has failed so far
  prev            \* per name, the summary of its call in the previous run

vars == << pc, max_retries, i, ci, fi, success_count, exit_status, results,
           reqs, out, store, indexed, faults, prev >>

----------------------------------------------------------------------------
\* Records of the two logs.

\* A request and what came back.  status: "200", "404", "500"; "200x" is a
\* 200 whose body is not the JSON the API documents; "exc" is no response,
\* the transport raised.  present: whether the store held the named
\* collection when the request was sent.  found: for an existence check,
\* what collection_exists returned.  listed: for a listing that was
\* answered, the names in the order of the response.
Req(kind, name, field, status) ==
  [kind |-> kind, name |-> name, field |-> field, status |-> status,
   present |-> name \in store, found |-> FALSE, secs |-> 0, listed |-> << >>]

\* time.sleep(secs)
Sleep(secs) ==
  [kind |-> "sleep", name |-> "", field |-> "", status |-> "-",
   present |-> FALSE, found |-> FALSE, secs |-> secs, listed |-> << >>]

\* A printed line: which message, and the values formatted into it.
Line(msg, name, field, count, total) ==
  [msg |-> msg, name |-> name, field |-> field, count |-> count, total |-> total]

Msg(msg) == Line(msg, "", "", 0, 0)

\* What the environment does to a request: answer it, answer with a
\* non-success status, break the connection, or (where the script parses
\* the body) answer 200 with a body that does not parse.
Outcomes == {"ok", "status", "transport"}
BodyOutcomes == Outcomes \cup {"malformed"}

\* The response the caller sees: the service's own under "ok".
Status(outcome, faithful) ==
  CASE outcome = "ok" -> faithful
    [] outcome = "status" -> "500"
    [] outcome = "malformed" -> "200x"
    [] OTHER -> "exc"

\* Whether the environment may give this outcome: failures after the probe
\* are counted against MaxFaults.
MayFail(outcome) == outcome = "ok" \/ faults < MaxFaults

Charge(outcome) == IF outcome = "ok" THEN faults ELSE faults + 1

\* A response that is a failure of the service or of the transport.
Failed(status) == status \in {"500", "200x", "exc"}

----------------------------------------------------------------------------
\* The conditions of the code.

\* response.status_code
status_code(status) == IF status = "200x" THEN "200" ELSE status

\* The exception a request site sees: the transport's ConnectionError (a
\* RequestException) or, where the body is parsed, response.json()'s
\* JSONDecodeError.
Raised(status) ==
  CASE status = "exc" -> "ConnectionError"
    [] status = "200x" -> "JSONDecodeError"
    [] OTHER -> "none"

\* Mutant of Catches: list_collections without its except clause.
CatchesNotInList(site, exc) ==
  CASE site = "liveness" -> exc \in {"ConnectionError", "JSONDecodeError"}
    [] site = "list" -> FALSE
    [] OTHER -> TRUE

\* The except clause around each request: wait_for_qdrant catches
\* requests.exceptions.RequestException, collection_exists and main's
\* version fetch have a bare except, create_collection and list_collections
\* catch Exception.
Catches(site, exc) ==
  CASE site = "liveness" -> exc \in {"ConnectionError", "JSONDecodeError"}
    [] OTHER -> TRUE

\* Mutant of IsReady: any response counts as ready.
IsReadyAny(status) == status # "exc"

\* Mutant of IsReady: the probe compares with 201.
IsReady201(status) == status_code(status) = "201"

\* wait_for_qdrant: response.status_code == 200
IsReady(status) == status_code(status) = "200"

\* Mutant of ShouldSleep: the guard is off by one and sleeps after the last
\* attempt too.
ShouldSleepOffByOne(i_, max_retries_) == i_ < max_retries_

\* wait_for_qdrant: if i < max_retries - 1 (print the retry line and sleep)
ShouldSleep(i_, max_retries_) == i_ < max_retries_ - 1

\* Mutant of collection_exists: every status but 404 counts as found.
collection_exists_not404(status) == status # "exc" /\ status_code(status) # "404"

\* Mutant of collection_exists: the function returns False on every path.
collection_exists_never(status) == FALSE

\* Mutant of collection_exists: the check compares with 201.
collection_exists201(status) == status # "exc" /\ status_code(status) = "201"

\* collection_exists: status_code == 200; any exception gives False
collection_exists(status) == status # "exc" /\ status_code(status) = "200"

\* Mutant of CreateSucceeded: every response counts as a success.
CreateSucceededAny(status) == status # "exc"

\* create_collection: response.status_code in [200, 201]
CreateSucceeded(status) == status_code(status) \in {"200", "201"}

\* create_collection: index_response.status_code in [200, 201]
IndexSucceeded(status) == status_code(status) \in {"200", "201"}

\* create_collection: the index requests are inside the function's one try
\* block, so an exception of an index request ends the call with False.
IndexErrorEndsCall(status) == status = "exc"

\* Mutant of PayloadFields: the key tested is not the key of the table, so
\* no field is indexed.
PayloadFieldsNone(config) ==
  IF "payload" \in DOMAIN config THEN config.payload_schema ELSE << >>

\* create_collection: if "payload_schema" in config, its entries in order
PayloadFields(config) ==
  IF "payload_schema" \in DOMAIN config THEN config.payload_schema ELSE << >>

\* list_collections: response.status_code == 200
ListSucceeded(status) == status_code(status) = "200"

----------------------------------------------------------------------------
\* The service.

\* GET /collections/{name}
ServiceGetCollection(name) == IF name \in store THEN "200" ELSE "404"

\* PUT /collections/{name}: creates the collection, or replaces the one of
\* that name by a new one, which has no payload index yet.
ServicePutStore(name) == store \cup {name}
ServicePutIndexed(name) == { p \in indexed : p[1] # name }

\* GET /collections: the service lists the collections it holds in an order
\* of its own; two orders stand for all of them, the order of COLLECTIONS
\* and its reverse.
Reverse(s) == [k \in 1..Len(s) |-> s[Len(s) + 1 - k]]

Orders(S) ==
  LET asc == SelectSeq([k \in 1..NumCollections |-> COLLECTIONS[k].name],
                       LAMBDA n : n \in S)
  IN { asc, Reverse(asc) }

----------------------------------------------------------------------------
\* Summary of one create_collection call of the run that ends, kept for the
\* next run.
CallReqs(log, name) ==
  SelectSeq(log, LAMBDA r : r.name = name /\ r.kind \in {"exists", "create", "index"})

Count(log, kind, name) ==
  Len(SelectSeq(log, LAMBDA r : r.kind = kind /\ r.name = name))

NoCall == [called |-> FALSE, fresh |-> FALSE, clean |-> FALSE, ret |-> FALSE,
           creates |-> 0, indexes |-> 0]

CallSummary(k) ==
  LET name == COLLECTIONS[k].name
      rs == CallReqs(reqs, name)
  IN IF k > Len(results) THEN NoCall
     ELSE [called |-> TRUE,
           fresh |-> ~rs[1].present,
           clean |-> \A j \in 1..Len(rs) : ~Failed(rs[j].status),
           ret |-> results[k],
           creates |-> Count(reqs, "create", name),
           indexes |-> Count(reqs, "index", name)]

IndexOf(name) == CHOOSE k \in 1..NumCollections : COLLECTIONS[k].name = name

----------------------------------------------------------------------------
Init ==
  /\ pc = "start"
  /\ max_retries \in 1..MaxRetries
  /\ i = 0
  /\ ci = 0
  /\ fi = 0
  /\ success_count = 0
  /\ exit_status = -1
  /\ results = << >>
  /\ reqs = << >>
  /\ out = << >>
  /\ store = {}
  /\ indexed = {}
  /\ faults = 0
  /\ prev = [n \in Names |-> NoCall]

\* An exception no except clause catches ends the process: the interpreter
\* prints the traceback and exits with status 1.
Uncaught ==
  /\ pc' = "crashed"
  /\ exit_status' = 1
  /\ out' = Append(out, Msg("traceback"))
  /\ UNCHANGED << i, ci, fi, success_count, results >>

\* main, up to the call of wait_for_qdrant and its first print.
main_start ==
  /\ pc = "start"
  /\ pc' = "wait"
  /\ i' = 0
  /\ out' = << Msg("banner"), Msg("waiting") >>
  /\ UNCHANGED << max_retries, ci, fi, success_count, exit_status, results,
                  reqs, store, indexed, faults, prev >>

\* A loop that never reaches its last pass.
LastAttemptNever(i_, max_retries_) == FALSE

\* The pass of `for i in range(max_retries)` after which the loop is over.
LastAttempt(i_, max_retries_) == i_ + 1 >= max_retries_

\* One iteration of wait_for_qdrant's loop; the last one returns to main,
\* which exits with status 1 when the result is False.
wait_for_qdrant ==
  /\ pc = "wait"
  /\ i < max_retries
  /\ \E o \in Outcomes :
       LET st == Status(o, "200")
           rq == Req("liveness", "", "", st)
           sl == ShouldSleep(i, max_retries)
           last == LastAttempt(i, max_retries)
       IN IF st = "exc" /\ ~Catches("liveness", Raised(st))
          THEN /\ reqs' = Append(reqs, rq)
               /\ Uncaught
          ELSE IF st # "exc" /\ IsReady(st)
          THEN /\ reqs' = Append(reqs, rq)
               /\ out' = Append(out, Msg("ready"))
               /\ pc' = "version"
               /\ UNCHANGED << i, exit_status, ci, fi, success_count, results >>
          ELSE /\ reqs' = Append(reqs, rq)
                           \o (IF sl THEN << Sleep(delay) >> ELSE << >>)
               /\ out' = out
                    \o (IF st = "exc" /\ i = 0
                        THEN << Msg("attempt_failed") >> ELSE << >>)
                    \o (IF sl THEN << Line("retry", "", "", i + 1, max_retries) >>
                        ELSE << >>)
                    \o (IF last THEN << Msg("not_available"), Msg("exiting") >>
                        ELSE << >>)
               /\ i' = IF last THEN i ELSE i + 1
               /\ pc' = IF last THEN "exit" ELSE "wait"
               /\ exit_status' = IF last THEN 1 ELSE exit_status
               /\ UNCHANGED << ci, fi, success_count, results >>
  /\ UNCHANGED << max_retries, store, indexed, faults, prev >>

\* main: the version request, whose failure is swallowed, and the start of
\* the loop over COLLECTIONS.
main_version ==
  /\ pc = "version"
  /\ \E o \in BodyOutcomes :
       LET st == Status(o, "200")
       IN /\ MayFail(o)
          /\ faults' = Charge(o)
          /\ reqs' = Append(reqs, Req("version", "", "", st))
          /\ IF Raised(st) # "none" /\ ~Catches("version", Raised(st))
             THEN Uncaught
             ELSE /\ out' = out
                       \o (IF st = "200" THEN << Msg("version") >> ELSE << >>)
                       \o << Msg("creating") >>
                  /\ success_count' = 0
                  /\ ci' = 1
                  /\ pc' = IF NumCollections >= 1 THEN "exists" ELSE "list"
                  /\ UNCHANGED << i, fi, exit_status, results >>
  /\ UNCHANGED << max_retries, store, indexed, prev >>

\* Mutant of Return: main calls create_collection again for an entry whose
\* call returned False.
ReturnRetriesFailed(r) ==
  /\ results' = IF r THEN Append(results, r) ELSE results
  /\ success_count' = IF r THEN success_count + 1 ELSE success_count
  /\ fi' = 0
  /\ ci' = IF r /\ ci < NumCollections THEN ci + 1 ELSE ci
  /\ pc' = IF ~r \/ ci < NumCollections THEN "exists" ELSE "list"
  /\ UNCHANGED << i, exit_status >>

\* Mutant of Return: main counts every call, whatever it returned.
ReturnCountsAll(r) ==
  /\ results' = Append(results, r)
  /\ success_count' = success_count + 1
  /\ fi' = 0
  /\ ci' = IF ci < NumCollections THEN ci + 1 ELSE ci
  /\ pc' = IF ci < NumCollections THEN "exists" ELSE "list"
  /\ UNCHANGED << i, exit_status >>

\* create_collection returns r to main's loop, which counts it and goes on
\* to the next entry of COLLECTIONS.
Return(r) ==
  /\ results' = Append(results, r)
  /\ success_count' = IF r THEN success_count + 1 ELSE success_count
  /\ fi' = 0
  /\ ci' = IF ci < NumCollections THEN ci + 1 ELSE ci
  /\ pc' = IF ci < NumCollections THEN "exists" ELSE "list"
  /\ UNCHANGED << i, exit_status >>

\* Mutant of create_collection_check: the skip branch lacks its return and
\* falls through to the creation request.
create_collection_check_fallthrough ==
  /\ pc = "exists"
  /\ LET name == COLLECTIONS[ci].name
     IN \E o \in Outcomes :
          LET st == Status(o, ServiceGetCollection(name))
              found == collection_exists(st)
          IN /\ MayFail(o)
             /\ faults' = Charge(o)
             /\ reqs' = Append(reqs, [Req("exists", name, "", st) EXCEPT !.found = found])
             /\ out' = IF found THEN Append(out, Line("exists_skipping", name, "", 0, 0))
                       ELSE out
             /\ pc' = "create"
             /\ UNCHANGED << results, success_count, fi, ci, i, exit_status >>
  /\ UNCHANGED << max_retries, store, indexed, prev >>

\* create_collection: the existence check and the skip.
create_collection_check ==
  /\ pc = "exists"
  /\ LET name == COLLECTIONS[ci].name
     IN \E o \in Outcomes :
          LET st == Status(o, ServiceGetCollection(name))
              found == collection_exists(st)
          IN /\ MayFail(o)
             /\ faults' = Charge(o)
             /\ reqs' = Append(reqs, [Req("exists", name, "", st) EXCEPT !.found = found])
             /\ IF st = "exc" /\ ~Catches("exists", Raised(st))
                THEN Uncaught
                ELSE IF found
                THEN /\ out' = Append(out, Line("exists_skipping", name, "", 0, 0))
                     /\ Return(TRUE)
                ELSE /\ pc' = "create"
                     /\ UNCHANGED << out, results, success_count, fi, ci, i,
                                     exit_status >>
  /\ UNCHANGED << max_retries, store, indexed, prev >>

\* Mutant of create_collection_put: the creation request is outside the try
\* block, so its exception leaves the function.
create_collection_put_unguarded ==
  /\ pc = "create"
  /\ LET config == COLLECTIONS[ci]
         name == config.name
     IN \E o \in Outcomes :
          LET st == Status(o, "200")
          IN /\ MayFail(o)
             /\ faults' = Charge(o)
             /\ reqs' = Append(reqs, Req("create", name, "", st))
             /\ store' = IF o = "ok" THEN ServicePutStore(name) ELSE store
             /\ indexed' = IF o = "ok" THEN ServicePutIndexed(name) ELSE indexed
             /\ IF st = "exc"
                THEN Uncaught
                ELSE IF CreateSucceeded(st)
                THEN /\ out' = Append(out, Line("created", name, "", 0, 0))
                     /\ IF Len(PayloadFields(config)) > 0
                        THEN /\ fi' = 1
                             /\ pc' = "index"
                             /\ UNCHANGED << results, success_count, ci, i,
                                             exit_status >>
                        ELSE Return(TRUE)
                ELSE /\ out' = Append(out, Line("failed_to_create", name, "", 0, 0))
                     /\ Return(FALSE)
  /\ UNCHANGED << max_retries, prev >>

\* create_collection: the creation request.
create_collection_put ==
  /\ pc = "create"
  /\ LET config == COLLECTIONS[ci]
         name == config.name
     IN \E o \in Outcomes :
          LET st == Status(o, "200")
          IN /\ MayFail(o)
             /\ faults' = Charge(o)
             /\ reqs' = Append(reqs, Req("create", name, "", st))
             /\ store' = IF o = "ok" THEN ServicePutStore(name) ELSE store
             /\ indexed' = IF o = "ok" THEN ServicePutIndexed(name) ELSE indexed
             /\ IF st = "exc"
                THEN IF Catches("create", Raised(st))
                     THEN /\ out' = Append(out, Line("error_creating", name, "", 0, 0))
                          /\ Return(FALSE)
                     ELSE Uncaught
                ELSE IF CreateSucceeded(st)
                THEN /\ out' = Append(out, Line("created", name, "", 0, 0))
                     /\ IF Len(PayloadFields(config)) > 0
                        THEN /\ fi' = 1
                             /\ pc' = "index"
                             /\ UNCHANGED << results, success_count, ci, i,
                                             exit_status >>
                        ELSE Return(TRUE)
                ELSE /\ out' = Append(out, Line("failed_to_create", name, "", 0, 0))
                     /\ Return(FALSE)
  /\ UNCHANGED << max_retries, prev >>

\* create_collection: one iteration of the loop over payload_schema.
create_collection_index ==
  /\ pc = "index"
  /\ LET config == COLLECTIONS[ci]
         name == config.name
         fields == PayloadFields(config)
         field_name == fields[fi].field_name
     IN \E o \in Outcomes :
          LET st == Status(o, "200")
          IN /\ MayFail(o)
             /\ faults' = Charge(o)
             /\ reqs' = Append(reqs, Req("index", name, field_name, st))
             /\ indexed' = IF o = "ok" THEN indexed \cup { <<name, field_name>> }
                           ELSE indexed
             /\ IF st = "exc" /\ ~Catches("index", Raised(st))
                THEN Uncaught
                ELSE IF IndexErrorEndsCall(st)
                THEN /\ out' = Append(out, Line("error_creating", name, "", 0, 0))
                     /\ Return(FALSE)
                ELSE /\ out' = IF st # "exc" /\ IndexSucceeded(st)
                               THEN Append(out, Line("indexed", name, field_name, 0, 0))
                               ELSE out
                     /\ IF fi < Len(fields)
                        THEN /\ fi' = fi + 1
                             /\ UNCHANGED << pc, results, success_count, ci, i,
                                             exit_status >>
                        ELSE Return(TRUE)
  /\ UNCHANGED << max_retries, store, prev >>

\* main after the loop: the summary, list_collections, the closing lines.
list_collections ==
  /\ pc = "list"
  /\ \E o \in BodyOutcomes :
       LET st == Status(o, "200")
           summary == Line("summary", "", "", success_count, NumCollections)
       IN /\ MayFail(o)
          /\ faults' = Charge(o)
          /\ IF Raised(st) # "none" /\ ~Catches("list", Raised(st))
             THEN /\ reqs' = Append(reqs, Req("list", "", "", st))
                  /\ pc' = "crashed"
                  /\ exit_status' = 1
                  /\ out' = out \o << summary, Msg("traceback") >>
             ELSE /\ \E order \in (IF o = "ok" THEN Orders(store) ELSE { << >> }) :
                     /\ reqs' = Append(reqs, [Req("list", "", "", st)
                                               EXCEPT !.listed = order])
                     /\ out' = out
                         \o << summary >>
                         \o (IF Raised(st) # "none" THEN << Msg("error_listing") >>
                             ELSE IF ListSucceeded(st)
                             THEN (IF Len(order) > 0
                                   THEN << Msg("existing") >>
                                        \o [k \in 1..Len(order) |->
                                              Line("collection", order[k], "", 0, 0)]
                                   ELSE << Msg("none_found") >>)
                             ELSE << >>)
                         \o << Msg("complete") >>
                  /\ pc' = "done"
                  /\ exit_status' = 0
  /\ UNCHANGED << max_retries, i, ci, fi, success_count, results, store,
                  indexed, prev >>

\* The script is run again against the same service.
rerun ==
  /\ pc \in {"done", "exit", "crashed"}
  /\ prev' = [n \in Names |-> CallSummary(IndexOf(n))]
  /\ pc' = "start"
  /\ i' = 0
  /\ ci' = 0
  /\ fi' = 0
  /\ success_count' = 0
  /\ exit_status' = -1
  /\ results' = << >>
  /\ reqs' = << >>
  /\ out' = << >>
  /\ UNCHANGED << max_retries, store, indexed, faults >>

Next ==
  \/ main_start
  \/ wait_for_qdrant
  \/ main_version
  \/ create_collection_check
  \/ create_collection_put
  \/ create_collection_index
  \/ list_collections
  \/ rerun

Spec == Init /\ [][Next]_vars

----------------------------------------------------------------------------
\* Views of the logs used by the properties.

Kinds(ks) == SelectSeq(reqs, LAMBDA r : r.kind \in ks)

\* The liveness requests of the run, and the liveness requests and sleeps.
Liveness == Kinds({"liveness"})
ProbeLog == Kinds({"liveness", "sleep"})

\* Request, sleep, request, ..., in turn, starting with a request; every
\* sleep lasts delay.
Alternates(log) ==
  \A j \in 1..Len(log) :
    IF j % 2 = 1 THEN log[j].kind = "liveness"
    ELSE log[j].kind = "sleep" /\ log[j].secs = delay

\* wait_for_qdrant has returned: True after an attempt that got a 200, False
\* after max_retries attempts none of which did.
WaitReturnedTrue ==
  Len(Liveness) > 0 /\ Liveness[Len(Liveness)].status = "200"

WaitReturnedFalse ==
  /\ Len(Liveness) = max_retries
  /\ \A k \in 1..Len(Liveness) : Liveness[k].status # "200"

\* The steps of a run (all but starting the script again).
RunStep ==
  \/ main_start
  \/ wait_for_qdrant
  \/ main_version
  \/ create_collection_check
  \/ create_collection_put
  \/ create_collection_index
  \/ list_collections

\* The k-th create_collection call of this run has returned.
Returned(k) == k <= Len(results)

\* The names of the fields of the index requests sent for a collection, in
\* the order sent.
IndexedFields(name) ==
  LET rs == SelectSeq(reqs, LAMBDA r : r.kind = "index" /\ r.name = name)
  IN [j \in 1..Len(rs) |-> rs[j].field]

DeclaredFields(k) ==
  LET fs == PayloadFields(COLLECTIONS[k])
  IN [j \in 1..Len(fs) |-> fs[j].field_name]

\* The request that follows position p of the log is the existence check of
\* the entry after COLLECTIONS[k], or the listing when k is the last entry.
NextIsFollowingSpec(p, k) ==
  p < Len(reqs) =>
    IF k < NumCollections
    THEN reqs[p + 1].kind = "exists" /\ reqs[p + 1].name = COLLECTIONS[k + 1].name
    ELSE reqs[p + 1].kind = "list"

----------------------------------------------------------------------------
\* C1. Idempotence of create_collection: when a call for a collection the
\* store did not hold had every request answered successfully, and the next
\* call for the same collection is answered successfully too, then the first
\* call sent one creation request and returned True, and the second saw the
\* existence check succeed, returned True and sent no creation request and
\* no index request.
C1_Idempotent ==
  \A k \in 1..NumCollections :
    LET name == COLLECTIONS[k].name
        first == prev[name]
        second == CallSummary(k)
    IN (first.called /\ first.fresh /\ first.clean /\ second.called /\ second.clean)
       => /\ first.creates = 1
          /\ first.ret = TRUE
          /\ CallReqs(reqs, name)[1].kind = "exists"
          /\ CallReqs(reqs, name)[1].status = "200"
          /\ second.ret = TRUE
          /\ second.creates = 0
          /\ second.indexes = 0

C1_Witness ==
  \E k \in 1..NumCollections :
    LET first == prev[COLLECTIONS[k].name]
        second == CallSummary(k)
    IN /\ first.called /\ first.fresh /\ first.clean /\ first.creates = 1
       /\ second.called /\ second.clean /\ second.creates = 0

\* C2. Skip and create exclude each other: when collection_exists returned
\* True in a call, the call sends no creation request and no index request
\* and returns True.
C2_SkipExcludesCreate ==
  \A p \in 1..Len(reqs) :
    (reqs[p].kind = "exists" /\ reqs[p].found)
    => LET name == reqs[p].name
           k == IndexOf(name)
       IN /\ Count(reqs, "create", name) = 0
          /\ Count(reqs, "index", name) = 0
          /\ Returned(k)
          /\ results[k] = TRUE
          /\ pc \in {"create", "index"} => ci # k

C2_Witness ==
  /\ pc = "done"
  /\ \E p \in 1..Len(reqs) : reqs[p].kind = "exists" /\ reqs[p].found
  /\ \E p \in 1..Len(reqs) : reqs[p].kind = "create"

\* C3. No creation request (create-or-replace) is sent for a name the store
\* holds when the request is sent, whatever the service answers, and no
\* delete request is sent.
C3_NeverPutsExisting ==
  \A p \in 1..Len(reqs) :
    /\ reqs[p].kind = "create" => ~reqs[p].present
    /\ reqs[p].kind # "delete"

\* C4. Early exit of the probe: when attempt k is the first to get a 200
\* (k <= max_retries), wait_for_qdrant returns True after exactly k liveness
\* requests and k - 1 sleeps, one between each two attempts, and no liveness
\* request or sleep follows.
C4_EarlyExit ==
  \A k \in 1..Len(Liveness) :
    Liveness[k].status = "200"
    => /\ k <= max_retries
       /\ Len(Liveness) = k
       /\ \A j \in 1..(k - 1) : Liveness[j].status # "200"
       /\ Len(ProbeLog) = 2 * k - 1
       /\ Alternates(ProbeLog)
       /\ pc \in {"version", "exists", "create", "index", "list", "done"}

C4_Witness ==
  /\ Len(Liveness) = 3
  /\ Liveness[1].status = "exc"
  /\ Liveness[2].status = "500"
  /\ Liveness[3].status = "200"
  /\ pc = "done"

\* C5. Exhaustion of the probe: when every attempt fails, by a transport
\* error or a non-success status in any mix, wait_for_qdrant makes exactly
\* max_retries liveness requests, sleeps delay between each two of them and
\* not after the last, and returns False.
C5_Exhaustion ==
  /\ pc = "wait"
     => /\ Len(Liveness) = i
        /\ i < max_retries
        /\ Len(ProbeLog) = 2 * i
        /\ Alternates(ProbeLog)
  /\ (pc \notin {"start", "wait"} /\ \A k \in 1..Len(Liveness) : Liveness[k].status # "200")
     => /\ pc = "exit"
        /\ Len(Liveness) = max_retries
        /\ Len(ProbeLog) = 2 * max_retries - 1
        /\ Alternates(ProbeLog)
        /\ Len(reqs) = Len(ProbeLog)

C5_Witness ==
  /\ pc = "exit"
  /\ max_retries = 3
  /\ Len(Liveness) = 3
  /\ \E k \in 1..3 : Liveness[k].status = "exc"
  /\ \E k \in 1..3 : Liveness[k].status = "500"

\* C6. Exit status: the process exits with status 1 exactly when
\* wait_for_qdrant returned False, and then no version, existence, creation,
\* index or listing request was sent; once wait_for_qdrant returned True the
\* run goes on whatever fails (no step is stuck, no exception ends it) and
\* ends with status 0.
C6_ExitStatus ==
  /\ exit_status \in {-1, 0, 1}
  /\ exit_status = 1 <=> WaitReturnedFalse
  /\ WaitReturnedFalse => Kinds({"version", "exists", "create", "index", "list"}) = << >>
  /\ WaitReturnedTrue
     => /\ pc # "crashed"
        /\ exit_status = 0 <=> pc = "done"
        /\ pc # "done" => ENABLED RunStep

C6_Witness ==
  /\ pc = "done"
  /\ exit_status = 0
  /\ \E p \in 1..Len(reqs) : reqs[p].kind # "liveness" /\ Failed(reqs[p].status)

\* C7. Index failures do not fail the collection: a call whose creation
\* request got a success status returns True whatever happens to its index
\* requests (non-success status or transport error), and a call returns
\* False only if its creation request failed.
C7_IndexFailureKeepsTrue ==
  \A k \in 1..Len(results) :
    LET name == COLLECTIONS[k].name
        puts == SelectSeq(reqs, LAMBDA r : r.kind = "create" /\ r.name = name)
    IN /\ (Len(puts) = 1 /\ puts[1].status = "200") => results[k] = TRUE
       /\ results[k] = FALSE => (Len(puts) = 1 /\ puts[1].status # "200")

\* C8. Index failures do not abort the remaining fields: a call whose
\* creation request got a success status sends exactly one index request
\* for every declared payload field, in declaration order, whether or not
\* earlier index requests failed, and reports each one's success or failure.
C8_EveryFieldIndexed ==
  \A k \in 1..Len(results) :
    LET name == COLLECTIONS[k].name
    IN (\E p \in 1..Len(reqs) :
          reqs[p].kind = "create" /\ reqs[p].name = name /\ reqs[p].status = "200")
       => /\ IndexedFields(name) = DeclaredFields(k)
          /\ \A p \in 1..Len(reqs) :
               (reqs[p].kind = "index" /\ reqs[p].name = name)
               => \E q \in 1..Len(out) :
                    /\ out[q].name = name
                    /\ \/ out[q].msg = "indexed" /\ out[q].field = reqs[p].field
                          /\ reqs[p].status = "200"
                       \/ out[q].msg = "error_creating" /\ reqs[p].status # "200"

\* C9. A failed creation is isolated: when the creation request of one
\* entry gets a non-success status, create_collection returns False for it,
\* no index request is sent for it, success_count is not incremented, and
\* main goes on with the existence check of the next entry in declaration
\* order (the listing after the last entry).
C9_FailedCreationIsolated ==
  /\ [](\A p \in 1..Len(reqs) :
          (reqs[p].kind = "create" /\ reqs[p].status = "500")
          => LET k == IndexOf(reqs[p].name)
             IN /\ Returned(k)
                /\ results[k] = FALSE
                /\ Count(reqs, "index", reqs[p].name) = 0
                /\ NextIsFollowingSpec(p, k))
  /\ [][(/\ pc = "create"
         /\ Len(reqs') = Len(reqs) + 1
         /\ reqs'[Len(reqs')].kind = "create"
         /\ reqs'[Len(reqs')].status = "500")
        => /\ success_count' = success_count
           /\ results' = Append(results, FALSE)
           /\ pc' = IF ci < NumCollections THEN "exists" ELSE "list"
           /\ ci' = IF ci < NumCollections THEN ci + 1 ELSE ci]_vars

C9_Witness ==
  \E p \in 1..Len(reqs) :
    /\ reqs[p].kind = "create"
    /\ reqs[p].status = "500"
    /\ p < Len(reqs)
    /\ reqs[p + 1].kind = "exists"
    /\ pc = "done"

\* C10. Transport errors during creation are contained: when the existence
\* check returned False and the creation request raises, the call returns
\* False, sends no index request, and the exception does not reach main,
\* which goes on with the next entry.
C10_CreateErrorContained ==
  /\ [](\A p \in 1..Len(reqs) :
          (reqs[p].kind = "create" /\ reqs[p].status = "exc")
          => LET k == IndexOf(reqs[p].name)
             IN /\ p > 1 /\ reqs[p - 1].kind = "exists" /\ ~reqs[p - 1].found
                /\ Returned(k)
                /\ results[k] = FALSE
                /\ Count(reqs, "index", reqs[p].name) = 0
                /\ pc # "crashed"
                /\ exit_status \in {-1, 0})
  /\ [][(/\ pc = "create"
         /\ Len(reqs') = Len(reqs) + 1
         /\ reqs'[Len(reqs')].status = "exc")
        => /\ pc' \in {"exists", "list"}
           /\ exit_status' = exit_status
           /\ results' = Append(results, FALSE)]_vars

C10_Witness ==
  \E p \in 1..Len(reqs) :
    /\ reqs[p].kind = "create"
    /\ reqs[p].status = "exc"
    /\ pc = "done"
    /\ exit_status = 0

\* C11. The existence checker is total and boolean: collection_exists
\* returns True exactly when the response has status 200, False for every
\* other status and for a transport error; it never raises; it sends one
\* request, a GET, and changes nothing in the store.
C11_ExistsTotal ==
  /\ [](\A p \in 1..Len(reqs) :
          reqs[p].kind = "exists"
          => /\ reqs[p].found <=> reqs[p].status = "200"
             /\ reqs[p].status \in {"404", "500", "exc"} => ~reqs[p].found
             /\ pc # "crashed")
  /\ [][pc = "exists"
        => /\ Len(reqs') = Len(reqs) + 1
           /\ reqs'[Len(reqs')].kind = "exists"
           /\ reqs'[Len(reqs')].name = COLLECTIONS[ci].name
           /\ store' = store
           /\ indexed' = indexed
           /\ pc' # "crashed"
           /\ exit_status' = exit_status]_vars

C11_Witness ==
  /\ \E p \in 1..Len(reqs) :
       reqs[p].kind = "exists" /\ reqs[p].status = "exc" /\ reqs[p].present
       /\ ~reqs[p].found
  /\ \E p \in 1..Len(reqs) : reqs[p].kind = "exists" /\ reqs[p].found
  /\ pc = "done"

\* The number of calls of this run that returned True.
Succeeded == Cardinality({ k \in 1..Len(results) : results[k] })

\* C12. The success counter: at every point of a run that passed the probe
\* success_count is the number of create_collection calls so far that
\* returned True, and the summary, printed after all N calls, reports that
\* number M out of N.
C12_SuccessCounter ==
  /\ success_count = Succeeded
  /\ \A q \in 1..Len(out) :
       out[q].msg = "summary"
       => /\ Len(results) = NumCollections
          /\ out[q].count = Succeeded
          /\ out[q].total = NumCollections

C12_Witness ==
  /\ pc = "done"
  /\ \E q \in 1..Len(out) : out[q].msg = "summary" /\ out[q].count = 3
  /\ \E k \in 1..Len(results) : ~results[k]

\* The names list_collections printed, in the order printed.
PrintedNames ==
  LET ls == SelectSeq(out, LAMBDA l : l.msg = "collection")
  IN [j \in 1..Len(ls) |-> ls[j].name]

\* C13. The inventory reporter: whatever the listing request gives,
\* list_collections returns to main, which ends with status 0; when the
\* request failed, by a transport error or by a non-success status, an
\* error line is printed; when it succeeded the names are printed in the
\* order of the response.
C13_ListingReported ==
  \A p \in 1..Len(reqs) :
    reqs[p].kind = "list"
    => /\ pc = "done"
       /\ exit_status = 0
       /\ reqs[p].status \in {"500", "exc"}
          => \E q \in 1..Len(out) : out[q].msg = "error_listing"
       /\ reqs[p].status = "200" => PrintedNames = reqs[p].listed

\* What a request is, without its answer.
Sent(r) == << r.kind, r.name, r.field >>

SentLog == [p \in 1..Len(reqs) |-> Sent(reqs[p])]

\* The run so far had every request answered successfully.
CleanRun == \A p \in 1..Len(reqs) : ~Failed(reqs[p].status)

\* The store held none (all) of the collections when the run started: a
\* collection enters the store only by its own creation request, which
\* follows its existence check.
StartedEmpty ==
  \A p \in 1..Len(reqs) : reqs[p].kind = "exists" => ~reqs[p].present

StartedFull ==
  \A p \in 1..Len(reqs) : reqs[p].kind = "exists" => reqs[p].present

\* The requests of a call that creates COLLECTIONS[k] and indexes its fields.
CreatingCall(k) ==
  LET name == COLLECTIONS[k].name
      fs == COLLECTIONS[k].payload_schema
  IN << << "exists", name, "" >>, << "create", name, "" >> >>
     \o [j \in 1..Len(fs) |-> << "index", name, fs[j].field_name >>]

RECURSIVE CreatingCallsFrom(_)
CreatingCallsFrom(k) ==
  IF k > NumCollections THEN << >>
  ELSE CreatingCall(k) \o CreatingCallsFrom(k + 1)

\* The summary line main printed, if any.
Summaries == SelectSeq(out, LAMBDA l : l.msg = "summary")

\* C14. A run against a reachable, initially empty store that answers every
\* request successfully sends exactly 4 creation requests, for documents,
\* chat_history, code_snippets and knowledge_base in that order, each
\* followed by its 5, 5, 5 and 6 index requests before the next entry is
\* touched; the summary reports 4 of 4 and the inventory lists the four
\* names.
C14_FreshStoreRun ==
  (pc = "done" /\ CleanRun /\ StartedEmpty)
  => /\ SentLog = << << "liveness", "", "" >>, << "version", "", "" >> >>
                  \o CreatingCallsFrom(1)
                  \o << << "list", "", "" >> >>
     /\ [p \in 1..Len(Kinds({"create"})) |-> Kinds({"create"})[p].name]
          = << "documents", "chat_history", "code_snippets", "knowledge_base" >>
     /\ [k \in 1..NumCollections |-> Count(reqs, "index", COLLECTIONS[k].name)]
          = << 5, 5, 5, 6 >>
     /\ Summaries = << Line("summary", "", "", 4, 4) >>
     /\ { PrintedNames[j] : j \in 1..Len(PrintedNames) }
          = {"documents", "chat_history", "code_snippets", "knowledge_base"}
     /\ Len(PrintedNames) = 4

C14_Witness ==
  /\ pc = "done"
  /\ CleanRun
  /\ StartedEmpty
  /\ Len(Kinds({"index"})) = 21
  /\ store = Names

\* C15. A run against a reachable store that holds all four collections and
\* answers every request successfully sends exactly 4 existence checks, each
\* answered present, no creation request and no index request, and the
\* summary reports 4 of 4.
C15_RerunProvisioned ==
  (pc = "done" /\ CleanRun /\ StartedFull)
  => /\ Len(Kinds({"exists"})) = 4
     /\ \A p \in 1..Len(reqs) :
          reqs[p].kind = "exists" => reqs[p].status = "200" /\ reqs[p].found
     /\ Kinds({"create"}) = << >>
     /\ Kinds({"index"}) = << >>
     /\ Summaries = << Line("summary", "", "", 4, 4) >>

C15_Witness ==
  /\ pc = "done"
  /\ CleanRun
  /\ StartedFull
  /\ Len(Kinds({"exists"})) = 4
  /\ \A n \in Names : prev[n].called /\ prev[n].creates = 1

\* The place of a collection-scoped request in a run: entries in table
\* order; within an entry the existence check, the creation request, then
\* the index requests in field order; the listing after the last entry.
ScopedRequests ==
  { << "list", "", "" >> }
  \cup UNION { { CreatingCall(k)[j] : j \in 1..Len(CreatingCall(k)) } :
               k \in 1..NumCollections }

RankTable ==
  [t \in ScopedRequests |->
     IF t[1] = "list" THEN 100 * (NumCollections + 1)
     ELSE LET k == IndexOf(t[2])
          IN 100 * k + (CHOOSE j \in 1..Len(CreatingCall(k)) : CreatingCall(k)[j] = t)]

Rank(r) == RankTable[Sent(r)]

Scoped == Kinds({"exists", "create", "index", "list"})

C17_SingleAttempt ==
  LET checks == Kinds({"exists"})
      puts == Kinds({"create"})
      checked == { checks[p].name : p \in 1..Len(checks) }
      put == { puts[p].name : p \in 1..Len(puts) }
  IN /\ Cardinality(checked) = Len(checks)
     /\ Cardinality(put) = Len(puts)
     /\ put \subseteq checked

C17_Witness ==
  /\ pc = "done"
  /\ \E p \in 1..Len(reqs) :
       /\ reqs[p].kind = "create"
       /\ Failed(reqs[p].status)
       /\ Count(reqs, "create", reqs[p].name) = 1
       /\ results[IndexOf(reqs[p].name)] = FALSE

\* C18. Index requests happen only alongside a fresh creation: an index
\* request for a name is sent only in the call whose creation request for
\* that name got a success status, and so never for a collection the store
\* already held when the call began: the indexes a collection lacks are not
\* created by running the script again.
C18_IndexOnlyWhenFresh ==
  \A p \in 1..Len(reqs) :
    reqs[p].kind = "index"
    => \E q \in 1..(p - 1) :
         /\ reqs[q].kind = "create"
         /\ reqs[q].name = reqs[p].name
         /\ reqs[q].status = "200"
         /\ ~reqs[q].present

\* A run under the script's scheduling: the interpreter is single-threaded
\* and every statement is blocking, so a step of the run that can be taken
\* is taken once the request before it has returned a response or raised.
FairSpec == Init /\ [][Next]_vars /\ WF_vars(RunStep)

\* The requests a run may send besides the liveness requests: each at most
\* once.
OneShotRequests == ScopedRequests \cup { << "version", "", "" >> }

RequestBounds ==
  LET rs == Kinds({"version", "exists", "create", "index", "list"})
      sent == { Sent(rs[p]) : p \in 1..Len(rs) }
  IN /\ Len(Liveness) <= max_retries
     /\ sent \subseteq OneShotRequests
     /\ Cardinality(sent) = Len(rs)

Terminated == pc \in {"done", "exit", "crashed"}

\* C19. Termination: when every request returns a response or raises, a run
\* of main ends with exit status 0 or 1 whatever the requests give, having
\* sent at most max_retries liveness requests, one version request, one
\* existence check and one creation request per entry, one index request per
\* declared field, and one listing request.
C19_Termination ==
  /\ [](RequestBounds /\ (Terminated => exit_status \in {0, 1}))
  /\ (pc = "start") ~> Terminated

C19_Witness ==
  /\ pc = "done"
  /\ exit_status = 0
  /\ max_retries > 1
  /\ Len(Liveness) = max_retries
  /\ Len(Kinds({"version", "exists", "create", "index", "list"}))
       = Cardinality(OneShotRequests)

====
